---- MODULE Spec2Model ----
(***************************************************************************)
(* Air Quality Analysis Dashboard (app.py).                                *)
(*                                                                         *)
(* The dashboard is a Streamlit script that is executed top to bottom on   *)
(* every user interaction: it loads the CSV, reads the sidebar widgets,    *)
(* filters the table and renders four tabs.  The model follows one         *)
(* execution of the script step by step (pc) and lets the user start the   *)
(* next execution once the script has ended or raised.                     *)
(*                                                                         *)
(* A table is a sequence of rows, a row a record of its cells.  A cell     *)
(* that can be missing is a sequence: <<>> is NaN, <<v>> holds v.          *)
(***************************************************************************)
EXTENDS Integers, Sequences, FiniteSets

\* ---- bounds of the exploration -----------------------------------------
MaxRows == 7        \* rows of the largest CSV file explored
MaxDate == 2        \* days covered by the observations (day numbers 1..MaxDate)
MaxRenders == 2     \* executions of the script in one session

\* ---- constants of the program ------------------------------------------
aq_categories ==
    << "Good", "Moderate", "Unhealthy for Sensitive Groups",
       "Unhealthy", "Very Unhealthy", "Hazardous" >>

AllStations == "All Stations"
AllCategories == "All Categories"
NoDataMessage == "No data available for the selected filters."

MinHour == 0
MaxHour == 23

\* hours the observations and the sliders are sampled at (all within the slider's range)
HourSamples == << MinHour, 12, MaxHour >>

StationNames == << "Aotizhongxin", "Changping" >>
WindDirections == << "N", "E" >>

\* ---- generic helpers ----------------------------------------------------
Range(s) == { s[i] : i \in DOMAIN s }

NaN == << >>
notna(cell) == cell # NaN

RECURSIVE SumSeq(_)
SumSeq(s) == IF s = << >> THEN 0 ELSE Head(s) + SumSeq(Tail(s))

RECURSIVE SumOver(_, _)
SumOver(f, keys) ==
    IF keys = {} THEN 0
    ELSE LET k == CHOOSE x \in keys : TRUE
         IN  f[k] + SumOver(f, keys \ {k})

\* ---- the CSV file -------------------------------------------------------
\* The i-th observation of the largest file: the stations report in blocks of
\* six observations that run through the six categories, the day changes
\* with every observation and the hour with every third; every third PM2.5
\* measurement and every fifth wind direction is missing.
CsvRow(i) ==
    [ station   |-> StationNames[(((i - 1) \div 6) % Len(StationNames)) + 1],
      Category  |-> aq_categories[((i - 1) % Len(aq_categories)) + 1],
      timestamp |-> [ kind |-> "str",
                      date |-> ((i - 1) % MaxDate) + 1,
                      hour |-> HourSamples[(((i - 1) \div 3) % Len(HourSamples)) + 1] ],
      PM25      |-> IF i % 3 = 0 THEN NaN ELSE << 10 * i >>,
      wd        |-> IF i % 5 = 0 THEN NaN
                    ELSE << WindDirections[IF i % 3 = 1 THEN 1 ELSE 2] >> ]

\* The files explored: every non-empty run of consecutive observations.
CsvFiles ==
    { SubSeq([ i \in 1..MaxRows |-> CsvRow(i) ], first, last) :
        first \in 1..MaxRows, last \in 1..MaxRows } \ { << >> }

VARIABLES
    csv,                    \* data/combined_air_quality_data.csv
    pc,                     \* position of the script
    renders,                \* executions of the script so far
    air_quality_data,       \* the loaded table
    multiselect_value,      \* what the 'Select Stations' widget returned
    selected_stations,
    selected_aq_category,
    start_date, end_date,
    start_hour, end_hour,
    filtered_data,
    category_count_summary,
    metrics,                \* the st.metric calls of tab1
    pivot_counts,
    fig_polar,              \* the Barpolar traces of tab4
    rendered                \* what the script has put on the page, in order

vars == << csv, pc, renders, air_quality_data, multiselect_value,
           selected_stations, selected_aq_category, start_date, end_date,
           start_hour, end_hour, filtered_data, category_count_summary,
           metrics, pivot_counts, fig_polar, rendered >>

widgets == << multiselect_value, selected_stations, selected_aq_category,
              start_date, end_date, start_hour, end_hour >>

views == << category_count_summary, metrics, pivot_counts, fig_polar >>

NoPivot == [ index |-> {}, columns |-> {}, cells |-> << >> ]

\* ---- pandas -------------------------------------------------------------
\* pd.to_datetime: parses a string, leaves a datetime as it is
to_datetime(ts) == [ ts EXCEPT !.kind = "datetime64" ]

\* pd.read_csv followed by the conversion of the timestamp column; the index
\* of the frame is the position of the row in the file
read_csv(file) ==
    [ i \in DOMAIN file |->
        [ idx |-> i - 1, station |-> file[i].station, Category |-> file[i].Category,
          timestamp |-> to_datetime(file[i].timestamp),
          PM25 |-> file[i].PM25, wd |-> file[i].wd ] ]

\* Series.unique(): the values in order of first appearance
RECURSIVE unique(_)
unique(s) ==
    IF s = << >> THEN << >>
    ELSE LET front == unique(SubSeq(s, 1, Len(s) - 1))
             last  == s[Len(s)]
         IN  IF last \in Range(front) THEN front ELSE Append(front, last)

Stations(table) == [ i \in DOMAIN table |-> table[i].station ]
Categories(table) == [ i \in DOMAIN table |-> table[i].Category ]
Dates(table) == [ i \in DOMAIN table |-> table[i].timestamp.date ]

RECURSIVE SeqMin(_)
SeqMin(s) ==
    IF Len(s) = 1 THEN s[1]
    ELSE LET m == SeqMin(Tail(s)) IN IF s[1] < m THEN s[1] ELSE m

RECURSIVE SeqMax(_)
SeqMax(s) ==
    IF Len(s) = 1 THEN s[1]
    ELSE LET m == SeqMax(Tail(s)) IN IF s[1] > m THEN s[1] ELSE m

isin(value, values) == value \in values

\* between as it would be with the right bound left out
betweenLeftOnly(value, left, right) == left <= value /\ value < right

\* Series.between(left, right), inclusive="both"
between(value, left, right) == left <= value /\ value <= right

station_choices == << AllStations >> \o unique(Stations(air_quality_data))
aq_category_choices == << AllCategories >> \o unique(Categories(air_quality_data))

\* ---- the script ---------------------------------------------------------
Init ==
    /\ csv \in CsvFiles
    /\ pc = "load"
    /\ renders = 1
    /\ air_quality_data = << >>
    /\ multiselect_value = {}
    /\ selected_stations = {}
    /\ selected_aq_category = ""
    /\ start_date = 0
    /\ end_date = 0
    /\ start_hour = 0
    /\ end_hour = 0
    /\ filtered_data = << >>
    /\ category_count_summary = << >>
    /\ metrics = << >>
    /\ pivot_counts = NoPivot
    /\ fig_polar = << >>
    /\ rendered = << >>

\* lines 9-10
Load ==
    /\ pc = "load"
    /\ air_quality_data' = read_csv(csv)
    /\ pc' = "sidebar"
    /\ UNCHANGED << csv, renders, widgets, filtered_data, views, rendered >>

\* lines 37-48: the widgets return the user's choices
Sidebar ==
    /\ pc = "sidebar"
    /\ \E chosen \in SUBSET Range(station_choices) :
          /\ multiselect_value' = chosen
          /\ selected_stations' = chosen
    /\ selected_aq_category' \in Range(aq_category_choices)
    /\ start_date' \in 1..MaxDate
    /\ end_date' \in 1..MaxDate
    /\ start_hour' \in Range(HourSamples)
    /\ end_hour' \in Range(HourSamples)
    /\ pc' = "filter"
    /\ UNCHANGED << csv, renders, air_quality_data, filtered_data, views, rendered >>

\* line 56: the categories a row may have
CategoryValues ==
    IF selected_aq_category # AllCategories
    THEN { selected_aq_category }
    ELSE Range(aq_category_choices)

\* the mask as it would be without the hour condition
MaskWithoutHour(row, stations) ==
    /\ isin(row.station, stations)
    /\ isin(row.Category, CategoryValues)
    /\ between(row.timestamp.date, start_date, end_date)

\* lines 54-59: the boolean mask
Mask(row, stations) ==
    /\ isin(row.station, stations)
    /\ isin(row.Category, CategoryValues)
    /\ between(row.timestamp.date, start_date, end_date)
    /\ between(row.timestamp.hour, start_hour, end_hour)

\* the filter as it would be if the sentinel were expanded only when it is
\* the whole selection
FilterSentinelAlone ==
    /\ pc = "filter"
    /\ selected_stations' =
          IF selected_stations = { AllStations }
          THEN Range(Tail(station_choices))
          ELSE selected_stations
    /\ filtered_data' =
          SelectSeq(air_quality_data, LAMBDA row : Mask(row, selected_stations'))
    /\ pc' = "tab1"
    /\ UNCHANGED << csv, renders, air_quality_data, multiselect_value,
                    selected_aq_category, start_date, end_date, start_hour,
                    end_hour, views, rendered >>

\* the filter as it would be if it assigned its result to air_quality_data
FilterInPlace ==
    /\ pc = "filter"
    /\ selected_stations' =
          IF AllStations \in selected_stations
          THEN Range(Tail(station_choices))
          ELSE selected_stations
    /\ filtered_data' =
          SelectSeq(air_quality_data, LAMBDA row : Mask(row, selected_stations'))
    /\ air_quality_data' = filtered_data'
    /\ pc' = "tab1"
    /\ UNCHANGED << csv, renders, multiselect_value,
                    selected_aq_category, start_date, end_date, start_hour,
                    end_hour, views, rendered >>

\* lines 51-59
Filter ==
    /\ pc = "filter"
    /\ selected_stations' =
          IF AllStations \in selected_stations
          THEN Range(Tail(station_choices))
          ELSE selected_stations
    /\ filtered_data' =
          SelectSeq(air_quality_data, LAMBDA row : Mask(row, selected_stations'))
    /\ pc' = "tab1"
    /\ UNCHANGED << csv, renders, air_quality_data, multiselect_value,
                    selected_aq_category, start_date, end_date, start_hour,
                    end_hour, views, rendered >>

\* value_counts as it would be if it recorded the values without counting them
value_countsOnce(column) == [ v \in Range(column) |-> 1 ]

\* Series.value_counts(): the number of rows per value that occurs
value_counts(column) ==
    [ v \in Range(column) |-> Cardinality({ i \in DOMAIN column : column[i] = v }) ]

\* Series.reindex(labels, fill_value): one entry per label, in the order of
\* the labels; a label the series lacks gets fill_value
reindex(series, labels, fill_value) ==
    [ k \in DOMAIN labels |->
        [ index |-> labels[k],
          value |-> IF labels[k] \in DOMAIN series THEN series[labels[k]]
                    ELSE fill_value ] ]

\* series[label] on a reindexed series
at(series, label) ==
    (CHOOSE entry \in Range(series) : entry.index = label).value

\* the delta as it would be against the entry before
DeltaFromPrevious(summary, entry) ==
    LET k == CHOOSE n \in DOMAIN summary : summary[n] = entry
    IN  entry.value - (IF k = 1 THEN 0 ELSE summary[k - 1].value)

\* line 69: delta of the metric of one entry of the summary
Delta(summary, entry) == entry.value - at(summary, entry.index)

\* lines 64-77
Tab1 ==
    /\ pc = "tab1"
    /\ category_count_summary' =
          reindex(value_counts(Categories(filtered_data)), aq_categories, 0)
    /\ metrics' =
          [ k \in DOMAIN category_count_summary' |->
              [ label |-> category_count_summary'[k].index,
                value |-> category_count_summary'[k].value,
                delta |-> Delta(category_count_summary', category_count_summary'[k]) ] ]
    /\ rendered' = rendered \o << "heading", "metrics", "pie" >>
    /\ pc' = "tab2"
    /\ UNCHANGED << csv, renders, air_quality_data, widgets, filtered_data,
                    pivot_counts, fig_polar >>

\* line 84: the assignment writes the converted column into filtered_data,
\* which boolean indexing created as a table of its own
AssignTimestamp(table) ==
    [ i \in DOMAIN table |-> [ table[i] EXCEPT !.timestamp = to_datetime(@) ] ]

\* lines 79-103
Tab2 ==
    /\ pc = "tab2"
    /\ filtered_data' = AssignTimestamp(filtered_data)
    /\ rendered' =
          IF filtered_data' # << >>
          THEN Append(rendered, "timeseries")
          ELSE Append(rendered, NoDataMessage)
    /\ pc' = "tab3"
    /\ UNCHANGED << csv, renders, air_quality_data, widgets, views >>

\* lines 105-116: px.scatter draws an empty table as an empty chart
Tab3 ==
    /\ pc = "tab3"
    /\ rendered' = Append(rendered, "scatter")
    /\ pc' = "tab4"
    /\ UNCHANGED << csv, renders, air_quality_data, widgets, filtered_data, views >>

\* lines 120-126: pivot_table(index='station', columns='Category',
\* values='PM2.5', aggfunc='count', fill_value=0).  The stations and the
\* categories are those of the rows of the table; a cell counts the rows of
\* its station and category whose PM2.5 is not missing.
CountCell(table, station, category) ==
    Cardinality({ i \in DOMAIN table :
                    /\ table[i].station = station
                    /\ table[i].Category = category
                    /\ notna(table[i].PM25) })

pivot_table(table) ==
    [ index   |-> Range(Stations(table)),
      columns |-> Range(Categories(table)),
      cells   |-> [ c \in Range(Stations(table)) \X Range(Categories(table)) |->
                      CountCell(table, c[1], c[2]) ] ]

\* lines 127-134: px.bar raises ValueError when a name in y is not a column
\* of the data frame
BarRaises(pivot) == \E k \in DOMAIN aq_categories : aq_categories[k] \notin pivot.columns

\* lines 118-136
Tab4Bar ==
    /\ pc = "tab4"
    /\ pivot_counts' = pivot_table(filtered_data)
    /\ IF BarRaises(pivot_counts')
       THEN /\ pc' = "error"
            /\ UNCHANGED rendered
       ELSE /\ pc' = "polar"
            /\ rendered' = Append(rendered, "bar")
    /\ UNCHANGED << csv, renders, air_quality_data, widgets, filtered_data,
                    category_count_summary, metrics, fig_polar >>

\* line 139: groupby(['wd', 'Category']).size(); groupby drops the rows
\* whose wind direction is missing
groupby_size(table) ==
    LET keys == { << table[i].wd[1], table[i].Category >> :
                    i \in { j \in DOMAIN table : notna(table[j].wd) } }
    IN  [ key \in keys |->
            Cardinality({ i \in DOMAIN table :
                            /\ table[i].wd = << key[1] >>
                            /\ table[i].Category = key[2] }) ]

\* line 139
wind_direction_data == groupby_size(air_quality_data)

\* lines 146-153: one trace per category, r over theta
Traces(data) ==
    [ k \in DOMAIN aq_categories |->
        [ name |-> aq_categories[k],
          r    |-> [ theta \in { key[1] : key \in { x \in DOMAIN data : x[2] = aq_categories[k] } }
                       |-> data[<< theta, aq_categories[k] >>] ] ] ]

\* lines 138-155
Tab4Polar ==
    /\ pc = "polar"
    /\ fig_polar' = Traces(wind_direction_data)
    /\ rendered' = Append(rendered, "polar")
    /\ pc' = "done"
    /\ UNCHANGED << csv, renders, air_quality_data, widgets, filtered_data,
                    category_count_summary, metrics, pivot_counts >>

\* A user interaction: Streamlit executes the script again from its first
\* line; nothing the previous execution computed is kept.
Rerun ==
    /\ pc \in { "done", "error" }
    /\ renders < MaxRenders
    /\ renders' = renders + 1
    /\ pc' = "load"
    /\ air_quality_data' = << >>
    /\ multiselect_value' = {}
    /\ selected_stations' = {}
    /\ selected_aq_category' = ""
    /\ start_date' = 0
    /\ end_date' = 0
    /\ start_hour' = 0
    /\ end_hour' = 0
    /\ filtered_data' = << >>
    /\ category_count_summary' = << >>
    /\ metrics' = << >>
    /\ pivot_counts' = NoPivot
    /\ fig_polar' = << >>
    /\ rendered' = << >>
    /\ UNCHANGED csv

Next ==
    \/ Load
    \/ Sidebar
    \/ Filter
    \/ Tab1
    \/ Tab2
    \/ Tab3
    \/ Tab4Bar
    \/ Tab4Polar
    \/ Rerun

Spec == Init /\ [][Next]_vars

\* ---- the properties -----------------------------------------------------
AfterFilter == pc \in { "tab1", "tab2", "tab3", "tab4", "polar", "done", "error" }
AfterTab1 == pc \in { "tab2", "tab3", "tab4", "polar", "done", "error" }
AfterTab2 == pc \in { "tab3", "tab4", "polar", "done", "error" }
AfterPivot == pc \in { "polar", "done", "error" }

\* The selection as the user made it: the stations meant by the station
\* widget, and the rows of the source table the whole selection asks for.
StationsMeant ==
    IF AllStations \in multiselect_value
    THEN { air_quality_data[j].station : j \in DOMAIN air_quality_data }
    ELSE multiselect_value

StationAndCategoryMatch(row) ==
    /\ row.station \in StationsMeant
    /\ selected_aq_category = AllCategories \/ row.Category = selected_aq_category

RowMatches(row) ==
    /\ StationAndCategoryMatch(row)
    /\ start_date <= row.timestamp.date /\ row.timestamp.date <= end_date
    /\ start_hour <= row.timestamp.hour /\ row.timestamp.hour <= end_hour

InFiltered(row) == \E i \in DOMAIN filtered_data : filtered_data[i] = row

\* C1: after the filter has run, every row of the filtered table is a row of
\* the source table, and a source row is in the filtered table exactly when
\* its station is in the sentinel-expanded station selection, its category
\* matches the category selection, its date lies in the date range and its
\* hour lies in the hour range.
C1_FilteredIsSelection ==
    AfterFilter =>
      /\ \A i \in DOMAIN filtered_data :
            \E j \in DOMAIN air_quality_data : air_quality_data[j] = filtered_data[i]
      /\ \A j \in DOMAIN air_quality_data :
            InFiltered(air_quality_data[j]) <=> RowMatches(air_quality_data[j])

C1_Witness ==
    /\ AfterFilter
    /\ AllStations \notin multiselect_value
    /\ selected_aq_category # AllCategories
    /\ start_hour = end_hour
    /\ filtered_data # << >>
    /\ \E j \in DOMAIN air_quality_data :
          /\ StationAndCategoryMatch(air_quality_data[j])
          /\ ~ InFiltered(air_quality_data[j])

FullSelection ==
    /\ AllStations \in multiselect_value
    /\ selected_aq_category = AllCategories
    /\ start_date = SeqMin(Dates(air_quality_data))
    /\ end_date = SeqMax(Dates(air_quality_data))
    /\ start_hour = MinHour
    /\ end_hour = MaxHour

\* C2: when the station selection contains 'All Stations' (alone or with
\* specific stations), the category is 'All Categories', the date range is
\* the minimum to the maximum date of the dataset and the hour range is 0 to
\* 23, the filtered table holds every row of the source table.
C2_FullSelectionKeepsAll ==
    (AfterFilter /\ FullSelection) => filtered_data = air_quality_data

C2_Witness ==
    /\ AfterFilter
    /\ FullSelection
    /\ Cardinality(multiselect_value) > 1
    /\ Len(filtered_data) > 1
    /\ start_date < end_date

AtBounds(row) ==
    /\ StationAndCategoryMatch(row)
    /\ start_date <= end_date
    /\ row.timestamp.date \in { start_date, end_date }
    /\ start_hour <= end_hour
    /\ row.timestamp.hour \in { start_hour, end_hour }

\* C3: the date and hour ranges are inclusive at both bounds: a source row
\* that passes the station and category filters, whose date equals
\* start_date or end_date and whose hour equals start_hour or end_hour (the
\* ranges not being empty), is in the filtered table.
C3_BoundsInclusive ==
    AfterFilter =>
      \A j \in DOMAIN air_quality_data :
          AtBounds(air_quality_data[j]) => InFiltered(air_quality_data[j])

C3_Witness ==
    /\ AfterFilter
    /\ start_date < end_date
    /\ start_hour < end_hour
    /\ \E j \in DOMAIN air_quality_data :
          /\ AtBounds(air_quality_data[j])
          /\ air_quality_data[j].timestamp.date = end_date
          /\ air_quality_data[j].timestamp.hour = end_hour
          /\ InFiltered(air_quality_data[j])
    /\ \E j \in DOMAIN air_quality_data :
          /\ AtBounds(air_quality_data[j])
          /\ air_quality_data[j].timestamp.date = start_date
          /\ air_quality_data[j].timestamp.hour = start_hour
          /\ InFiltered(air_quality_data[j])

SummaryValues == [ k \in DOMAIN category_count_summary |-> category_count_summary[k].value ]

\* C4: the category counts of the Key Metrics tab sum to the number of rows
\* of the filtered table.
C4_CategoryCountsSum ==
    AfterTab1 => SumSeq(SummaryValues) = Len(filtered_data)

C4_Witness ==
    /\ AfterTab1
    /\ Len(filtered_data) < Len(air_quality_data)
    /\ \E k \in DOMAIN category_count_summary : category_count_summary[k].value > 1
    /\ \E k \in DOMAIN category_count_summary : category_count_summary[k].value = 0

\* C5: the cells of the per-station category pivot sum to the number of rows
\* of the filtered table, also when filtered rows lack a PM2.5 measurement.
C5_PivotCellsSum ==
    AfterPivot =>
      SumOver(pivot_counts.cells, DOMAIN pivot_counts.cells) = Len(filtered_data)

TraceCount(k, theta) ==
    IF theta \in DOMAIN fig_polar[k].r THEN fig_polar[k].r[theta] ELSE 0

\* C6: the wind-direction-by-category counts of the polar chart are those of
\* the filtered table: the count of each (wind direction, category) pair is
\* the number of filtered rows with that pair.
C6_PolarCountsFiltered ==
    pc = "done" =>
      \A k \in DOMAIN aq_categories : \A theta \in Range(WindDirections) :
          TraceCount(k, theta) =
            Cardinality({ i \in DOMAIN filtered_data :
                            /\ filtered_data[i].wd = << theta >>
                            /\ filtered_data[i].Category = aq_categories[k] })

\* C7: when the filtered table is empty the script shows the 'No data
\* available' message and runs to its end without raising in any tab.
C7_EmptyIsHandled ==
    (AfterFilter /\ filtered_data = << >>) =>
      /\ pc # "error"
      /\ AfterTab2 => NoDataMessage \in Range(rendered)

ExpectedRows == { j \in DOMAIN air_quality_data : RowMatches(air_quality_data[j]) }

ExpectedCount(category) ==
    Cardinality({ j \in DOMAIN air_quality_data :
                    /\ air_quality_data[j].Category = category
                    /\ RowMatches(air_quality_data[j]) })

ExpectedCell(station, category) ==
    Cardinality({ j \in DOMAIN air_quality_data :
                    /\ air_quality_data[j].station = station
                    /\ air_quality_data[j].Category = category
                    /\ air_quality_data[j].PM25 # NaN
                    /\ RowMatches(air_quality_data[j]) })

\* C8: in every execution of a session the source table is the table read
\* from the file (no step of the script alters it, the timestamp assignment
\* on the filtered table included), and the filtered table and the views
\* derived from it are determined by the file and the selection of this
\* execution alone.
C8_NoStateCarried ==
    /\ pc # "load" => air_quality_data = read_csv(csv)
    /\ AfterFilter =>
          /\ Len(filtered_data) = Cardinality(ExpectedRows)
          /\ \A j \in ExpectedRows : InFiltered(air_quality_data[j])
    /\ AfterTab1 =>
          \A k \in DOMAIN aq_categories :
              category_count_summary[k].value = ExpectedCount(aq_categories[k])
    /\ AfterPivot =>
          \A c \in DOMAIN pivot_counts.cells :
              pivot_counts.cells[c] = ExpectedCell(c[1], c[2])

C8_Witness ==
    /\ renders > 1
    /\ pc \in { "done", "error" }
    /\ filtered_data # << >>
    /\ Len(filtered_data) < Len(air_quality_data)
    /\ \E i \in DOMAIN filtered_data : filtered_data[i].PM25 = NaN

\* C9: when the stacked bar chart is built, the pivot of the filtered table
\* has a column for each of the six categories the chart asks for.
C9_PivotHasSixColumns ==
    AfterPivot =>
      \A k \in DOMAIN aq_categories : aq_categories[k] \in pivot_counts.columns

\* C10: the Key Metrics tab emits six metrics, one per category in the order
\* Good to Hazardous, and the delta of each is 0.
C10_SixMetricsZeroDelta ==
    AfterTab1 =>
      /\ Len(metrics) = 6
      /\ \A k \in DOMAIN metrics :
            /\ metrics[k].label = aq_categories[k]
            /\ metrics[k].delta = 0

C10_Witness ==
    /\ AfterTab1
    /\ \E k \in DOMAIN metrics : metrics[k].value > 1
    /\ \E k \in DOMAIN metrics : k > 1 /\ metrics[k].value # metrics[k - 1].value
====
